---- MODULE Spec2Model ----
(***************************************************************************)
(* The semantic similarity subsystem of the conversation history backend:  *)
(* the record store (conversations, messages, clusters), the two vector    *)
(* index collections, the search handlers, find_similar and auto_cluster.  *)
(*                                                                         *)
(* Similarities and distances are fixed-point numbers in hundredths        *)
(* (Unit = 1.00).  Text is a sequence of one-character strings.            *)
(***************************************************************************)
EXTENDS Integers, Sequences, FiniteSets, TLC

\* ------------------------------------------------------------------ bounds

MaxConv == 3
MaxMsg == 2
MaxLimit == 2

ConvIds == 1..MaxConv
MsgIds == 1..MaxMsg
Limits == 1..MaxLimit

\* --------------------------------------------------------- basic helpers

Min(a, b) == IF a <= b THEN a ELSE b

Range(s) == {s[i] : i \in 1..Len(s)}

Take(s, n) == SubSeq(s, 1, Min(n, Len(s)))

\* the ids of a result list, in order
Ids(s) == [i \in 1..Len(s) |-> s[i].id]

\* ---------------------------------------------------- the imported files

\* The JSON export c holds one conversation: its title, its started_at and
\* its messages are data of the file.
FileTitle(c) ==
    CASE c = 1 -> <<"a">>
      [] c = 2 -> <<"A", "c">>
      [] c = 3 -> <<"c", "b">>
      [] OTHER -> <<"b">>

FileStartedAt(c) ==
    CASE c = 1 -> 2
      [] c = 2 -> 3
      [] c = 3 -> 1
      [] OTHER -> c

\* message m is a message of the file of conversation MsgOwner(m)
MsgOwner(m) == ((m - 1) % MaxConv) + 1

FileMessages(c) == {m \in MsgIds : MsgOwner(m) = c}

MsgContent(m) ==
    CASE m = 1 -> <<"a">>
      [] m = 2 -> <<"C", "a">>
      [] OTHER -> <<"b">>

MsgTimestamp(m) ==
    CASE m = 1 -> 2
      [] m = 2 -> 1
      [] OTHER -> m

\* ------------------------------------------------- the embedding provider

\* A vector is a unit vector in the plane, named by its angle in units of
\* 30 degrees; CosTable[d + 1] is the cosine of d * 30 degrees.
Unit == 100

Angles == 0..11

CosTable == <<100, 87, 50, 0, -50, -87, -100, -87, -50, 0, 50, 87>>

Cosine(u, v) == CosTable[((u - v) % 12) + 1]

\* the index's metric ("hnsw:space": "cosine"): the cosine distance
CosineDistance(u, v) == Unit - Cosine(u, v)

\* The embedding model is a function of the text.  The text a conversation
\* is embedded under is the summary text of its file; a message is embedded
\* under its content; a query under the query text.
ConvVector(c) ==
    CASE c = 1 -> 0
      [] c = 2 -> 3
      [] c = 3 -> 3
      [] OTHER -> 6

MsgVector(m) ==
    CASE m = 1 -> 0
      [] m = 2 -> 6
      [] OTHER -> 3

Queries == {<<"a">>, <<"b">>, <<"c">>}

generate_embedding(text) ==
    CASE text = <<"a">> -> 0
      [] text = <<"b">> -> 2
      [] text = <<"Title: ", "b">> -> 4
      [] text = <<"Title: ", "c">> -> 8
      [] OTHER -> 6

\* --------------------------------------------------------------- values

NoVec == -1

\* an optional similarity: <<>> is None, <<s>> is the score s
None == <<>>
Some(s) == <<s>>

Modes == {"text", "semantic", "hybrid"}

Thresholds == {0, 70}

\* The keys of the message collection: a message id, or the fresh uuid4 an
\* import generates for message m (never the id of a row).
MsgUuid(m) == MaxMsg + m
MsgKeys == 1..(2 * MaxMsg)

\* ---------------------------------------------------------------- state

VARIABLES
    conversations,  \* the conversations table: the set of ids with a row
    messages,       \* the messages table: the set of ids with a row
    titles,         \* the title column of the conversations table
    convIndex,      \* conversation collection: key -> vector or NoVec
    msgIndex,       \* message collection: key -> vector or NoVec
    resp,           \* the request being answered: its response, with the
                    \* row it added to the write-only search_queries table
    clusters,       \* the conversation_clusters table (committed rows)
    members,        \* the conversation_cluster_members table (committed rows)
    session,        \* the rows an auto_cluster run added to its database
                    \* session and has not committed
    ac              \* the auto_cluster run: its position and its locals

storeVars == <<conversations, messages, titles, convIndex, msgIndex>>

clusterVars == <<clusters, members, session, ac>>

vars == <<conversations, messages, titles, convIndex, msgIndex, resp,
          clusters, members, session, ac>>

\* ------------------------------------------------------ the vector index

\* key k is at least as near to qvec as key j (ties: the lower key first)
Nearer(index, qvec, k, j) ==
    LET dk == CosineDistance(index[k], qvec)
        dj == CosineDistance(index[j], qvec)
    IN  dk < dj \/ (dk = dj /\ k <= j)

RECURSIVE NearestFirst(_, _, _)
NearestFirst(index, qvec, S) ==
    IF S = {} THEN <<>>
    ELSE LET k == CHOOSE x \in S : \A j \in S : Nearer(index, qvec, x, j)
         IN  <<[id |-> k, distance |-> CosineDistance(index[k], qvec)]>>
                 \o NearestFirst(index, qvec, S \ {k})

\* collection.query(query_embeddings=[qvec], n_results=n): the n nearest
\* entries, nearest first
IndexQuery(index, qvec, n) ==
    Take(NearestFirst(index, qvec, {k \in DOMAIN index : index[k] # NoVec}), n)

\* collection.get(ids=[k], include=['embeddings']): the embeddings found
IndexGet(index, k) ==
    IF k \in DOMAIN index /\ index[k] # NoVec THEN <<index[k]>> ELSE <<>>

\* collection.add(ids=[k], embeddings=[v]): a new entry; adding an id that
\* is already stored does not change the stored entry
IndexAdd(index, k, v) ==
    IF index[k] = NoVec THEN [index EXCEPT ![k] = v] ELSE index

\* collection.delete(ids=K): an absent id is a no-op
IndexDelete(index, K) ==
    [k \in DOMAIN index |-> IF k \in K THEN NoVec ELSE index[k]]

\* ----------------------------------------------- EmbeddingService queries

\* the formatted results of the service's search: 'similarity' is
\* 1 - distance
FormatResults(results) ==
    [i \in 1..Len(results) |->
        [id |-> results[i].id, similarity |-> Some(Unit - results[i].distance)]]

service_search_conversations(query, limit) ==
    FormatResults(IndexQuery(convIndex, generate_embedding(query), limit))

service_search_messages(query, limit) ==
    FormatResults(IndexQuery(msgIndex, generate_embedding(query), limit))

\* FilterSimilar without the test that skips the conversation itself
RECURSIVE FilterSimilar_keeps_self(_, _, _)
FilterSimilar_keeps_self(results, conversation_id, threshold) ==
    IF results = <<>> THEN <<>>
    ELSE LET r == Head(results)
             similarity == Unit - r.distance
             rest == FilterSimilar_keeps_self(Tail(results), conversation_id, threshold)
         IN  IF similarity >= threshold
             THEN <<[id |-> r.id, similarity |-> Some(similarity)]>> \o rest
             ELSE rest

\* the loop of find_similar_conversations over the neighbours: skip the
\* conversation itself, keep what reaches the threshold
RECURSIVE FilterSimilar(_, _, _)
FilterSimilar(results, conversation_id, threshold) ==
    IF results = <<>> THEN <<>>
    ELSE LET r == Head(results)
             similarity == Unit - r.distance
             rest == FilterSimilar(Tail(results), conversation_id, threshold)
         IN  IF r.id # conversation_id /\ similarity >= threshold
             THEN <<[id |-> r.id, similarity |-> Some(similarity)]>> \o rest
             ELSE rest

\* find_similar_conversations without the test on an empty get(): the
\* read of result['embeddings'][0] raises
find_similar_conversations_unguarded(conversation_id, limit, threshold) ==
    LET result == IndexGet(convIndex, conversation_id)
    IN  IF result = <<>>
        THEN [status |-> "error", results |-> <<>>]
        ELSE [status |-> "ok",
              results |-> Take(FilterSimilar(IndexQuery(convIndex, result[1], limit + 1),
                                             conversation_id, threshold), limit)]

\* find_similar_conversations asking the index for limit neighbours, not
\* limit + 1
find_similar_conversations_no_extra(conversation_id, limit, threshold) ==
    LET result == IndexGet(convIndex, conversation_id)
    IN  IF result = <<>>
        THEN [status |-> "ok", results |-> <<>>]
        ELSE [status |-> "ok",
              results |-> Take(FilterSimilar(IndexQuery(convIndex, result[1], limit),
                                             conversation_id, threshold), limit)]

\* "ok" with the list returned, or "error" when the body raised
find_similar_conversations(conversation_id, limit, threshold) ==
    LET result == IndexGet(convIndex, conversation_id)
    IN  IF result = <<>>
        THEN [status |-> "ok", results |-> <<>>]
        ELSE [status |-> "ok",
              results |-> Take(FilterSimilar(IndexQuery(convIndex, result[1], limit + 1),
                                             conversation_id, threshold), limit)]

\* ------------------------------------------------------ the text search

Lower(ch) ==
    CASE ch = "A" -> "a"
      [] ch = "B" -> "b"
      [] ch = "C" -> "c"
      [] OTHER -> ch

\* column ILIKE '%term%': a case-insensitive substring match
ILike(column, term) ==
    \E i \in 0..(Len(column) - Len(term)) :
        \A j \in 1..Len(term) : Lower(column[i + j]) = Lower(term[j])

\* the rows of S, latest first
RECURSIVE LatestFirst(_, _)
LatestFirst(S, when) ==
    IF S = {} THEN <<>>
    ELSE LET k == CHOOSE x \in S : \A j \in S : when[x] >= when[j]
         IN  <<k>> \o LatestFirst(S \ {k}, when)

TextRows(ids) == [i \in 1..Len(ids) |-> [id |-> ids[i], similarity |-> None]]

text_search_conversations(query, limit) ==
    TextRows(Take(LatestFirst({c \in conversations : ILike(titles[c], query)},
                              [c \in ConvIds |-> FileStartedAt(c)]), limit))

text_search_messages(query, limit) ==
    TextRows(Take(LatestFirst({m \in messages : ILike(MsgContent(m), query)},
                              [m \in MsgIds |-> MsgTimestamp(m)]), limit))

\* ---------------------------------------------------- the search handlers

\* Resolve without the lookup of the row: every semantic result is kept
Resolve_no_lookup(semantic_results, table) == semantic_results

\* the rows the semantic results resolve to, each with its similarity
Resolve(semantic_results, table) ==
    SelectSeq(semantic_results, LAMBDA r : r.id \in table)

\* MergeText with the text pass winning: a text match replaces the
\* semantic result of the same id
MergeText_text_wins(results, text_results) ==
    LET text_ids == {text_results[i].id : i \in 1..Len(text_results)}
    IN  SelectSeq(results, LAMBDA r : r.id \notin text_ids) \o text_results

\* MergeText without the test on existing_ids
MergeText_no_dedup(results, text_results) == results \o text_results

\* the hybrid merge: the text matches whose id is not among the results
MergeText(results, text_results) ==
    LET existing_ids == {results[i].id : i \in 1..Len(results)}
    IN  results \o SelectSeq(text_results, LAMBDA r : r.id \notin existing_ids)

\* key=lambda x: x.similarity or 0
SortKey(x) == IF x.similarity = None THEN 0 ELSE x.similarity[1]

\* InsertDesc placing x before the elements with an equal key: the sort
\* loses the order of insertion among equal keys
RECURSIVE InsertDesc_unstable(_, _)
InsertDesc_unstable(sorted, x) ==
    IF sorted = <<>> THEN <<x>>
    ELSE IF SortKey(Head(sorted)) <= SortKey(x) THEN <<x>> \o sorted
    ELSE <<Head(sorted)>> \o InsertDesc_unstable(Tail(sorted), x)

\* x goes before the first element with a smaller key
RECURSIVE InsertDesc(_, _)
InsertDesc(sorted, x) ==
    IF sorted = <<>> THEN <<x>>
    ELSE IF SortKey(Head(sorted)) < SortKey(x) THEN <<x>> \o sorted
    ELSE <<Head(sorted)>> \o InsertDesc(Tail(sorted), x)

\* results.sort(key=..., reverse=True): stable, largest key first
RECURSIVE SortDesc(_)
SortDesc(results) ==
    IF results = <<>> THEN <<>>
    ELSE InsertDesc(SortDesc(SubSeq(results, 1, Len(results) - 1)),
                    results[Len(results)])

\* the list before the sort
Merged(search_type, semantic, text_results) ==
    LET results == IF search_type \in {"semantic", "hybrid"} THEN semantic ELSE <<>>
    IN  IF search_type = "hybrid" THEN MergeText(results, text_results)
        ELSE IF search_type = "text" THEN text_results
        ELSE results

merged_conversations(query, search_type, limit) ==
    Merged(search_type,
           Resolve(service_search_conversations(query, limit), conversations),
           text_search_conversations(query, limit))

merged_messages(query, search_type, limit) ==
    Merged(search_type,
           Resolve(service_search_messages(query, limit * 2), messages),
           text_search_messages(query, limit))

search_conversations(query, search_type, limit) ==
    Take(SortDesc(merged_conversations(query, search_type, limit)), limit)

\* search_messages without results[:limit]
search_messages_untruncated(query, search_type, limit) ==
    SortDesc(merged_messages(query, search_type, limit))

search_messages(query, search_type, limit) ==
    Take(SortDesc(merged_messages(query, search_type, limit)), limit)

\* --------------------------------------------------------------- requests

NoResp ==
    [op |-> "none", status |-> "ok", query |-> <<>>, search_type |-> "",
     limit |-> 0, id |-> 0, threshold |-> 0, results |-> <<>>, log |-> None,
     data |-> <<>>]

NoRows == [clusters |-> {}, members |-> {}]

AcIdle ==
    [pc |-> "idle", min_cluster_size |-> 0, max_clusters |-> 0,
     conversations |-> <<>>, index_queried |-> FALSE, nrows |-> 0,
     labels |-> <<>>, todo |-> <<>>,
     clusters_created |-> 0, conversations_clustered |-> 0]

Failed(op, id) == [NoResp EXCEPT !.op = op, !.status = "error", !.id = id]

Done(op, id, status) == [NoResp EXCEPT !.op = op, !.status = status, !.id = id]

Init ==
    /\ conversations = {}
    /\ messages = {}
    /\ titles = [c \in ConvIds |-> <<>>]
    /\ convIndex = [c \in ConvIds |-> NoVec]
    /\ msgIndex = [k \in MsgKeys |-> NoVec]
    /\ resp = NoResp
    /\ clusters = {}
    /\ members = {}
    /\ session = NoRows
    /\ ac = AcIdle

\* _generate_embeddings: the conversation's embedding, then its messages'
\* under fresh uuids; a failure ends it where it happens and is swallowed.
GenerateEmbeddings(c, stored) ==
    /\ convIndex' = IF stored \in {"conversation", "all"}
                    THEN IndexAdd(convIndex, c, ConvVector(c))
                    ELSE convIndex
    /\ msgIndex' = IF stored = "all"
                   THEN [k \in MsgKeys |->
                           IF \E m \in FileMessages(c) : k = MsgUuid(m) /\ msgIndex[k] = NoVec
                           THEN MsgVector(k - MaxMsg)
                           ELSE msgIndex[k]]
                   ELSE msgIndex

ImportConversation_unswallowed(c) ==
    /\ resp = NoResp
    /\ IF c \in conversations
       THEN /\ resp' = Done("import", c, "already_exists")
            /\ UNCHANGED storeVars
       ELSE /\ conversations' = conversations \cup {c}
            /\ messages' = messages \cup FileMessages(c)
            /\ titles' = [titles EXCEPT ![c] = FileTitle(c)]
            /\ \E stored \in {"none", "conversation", "all"} :
                   /\ GenerateEmbeddings(c, stored)
                   /\ resp' = IF stored = "all"
                              THEN Done("import", c, "imported")
                              ELSE Failed("import", c)
    /\ UNCHANGED clusterVars

\* import_from_json of file c
ImportConversation(c) ==
    /\ resp = NoResp
    /\ IF c \in conversations
       THEN /\ resp' = Done("import", c, "already_exists")
            /\ UNCHANGED storeVars
       ELSE /\ conversations' = conversations \cup {c}
            /\ messages' = messages \cup FileMessages(c)
            /\ titles' = [titles EXCEPT ![c] = FileTitle(c)]
            /\ \E stored \in {"none", "conversation", "all"} :
                   GenerateEmbeddings(c, stored)
            /\ resp' = Done("import", c, "imported")
    /\ UNCHANGED clusterVars

\* store_conversation_embedding(c, text, metadata); ok: the embedding was
\* generated and the index took the write
StoreConversationEmbedding(c) ==
    /\ resp = NoResp
    /\ \E ok \in BOOLEAN :
          IF ok
          THEN /\ convIndex' = IndexAdd(convIndex, c, ConvVector(c))
               /\ resp' = Done("store_embedding", c, "ok")
          ELSE /\ convIndex' = convIndex
               /\ resp' = Failed("store_embedding", c)
    /\ UNCHANGED <<conversations, messages, titles, msgIndex>>
    /\ UNCHANGED clusterVars

\* store_message_embeddings(message_ids, texts, metadatas)
StoreMessageEmbeddings(ids) ==
    /\ resp = NoResp
    /\ \E ok \in BOOLEAN :
          IF ok
          THEN /\ msgIndex' = [k \in MsgKeys |->
                                 IF k \in ids /\ msgIndex[k] = NoVec
                                 THEN MsgVector(k) ELSE msgIndex[k]]
               /\ resp' = Done("store_message_embeddings", 0, "ok")
          ELSE /\ msgIndex' = msgIndex
               /\ resp' = Failed("store_message_embeddings", 0)
    /\ UNCHANGED <<conversations, messages, titles, convIndex>>
    /\ UNCHANGED clusterVars

\* delete_conversation_embedding(c)
DeleteConversationEmbedding(c) ==
    /\ resp = NoResp
    /\ \E ok \in BOOLEAN :
          IF ok
          THEN /\ convIndex' = IndexDelete(convIndex, {c})
               /\ resp' = Done("delete_embedding", c, "ok")
          ELSE /\ convIndex' = convIndex
               /\ resp' = Failed("delete_embedding", c)
    /\ UNCHANGED <<conversations, messages, titles, msgIndex>>
    /\ UNCHANGED clusterVars

\* delete_message_embeddings([k])
DeleteMessageEmbeddings(k) ==
    /\ resp = NoResp
    /\ \E ok \in BOOLEAN :
          IF ok
          THEN /\ msgIndex' = IndexDelete(msgIndex, {k})
               /\ resp' = Done("delete_message_embeddings", k, "ok")
          ELSE /\ msgIndex' = msgIndex
               /\ resp' = Failed("delete_message_embeddings", k)
    /\ UNCHANGED <<conversations, messages, titles, convIndex>>
    /\ UNCHANGED clusterVars

\* _log_search_query: the row added to search_queries, or none when the
\* write fails (the failure is logged and rolled back)
LogSearchQuery(query, search_type, results, logged) ==
    IF logged
    THEN Some([query_text |-> query, query_type |-> search_type,
               results_count |-> Len(results)])
    ELSE None

SearchResponse_log_failure_empties(op, query, search_type, limit, results, logged) ==
    [NoResp EXCEPT !.op = op, !.query = query, !.search_type = search_type,
                   !.limit = limit,
                   !.results = IF logged THEN results ELSE <<>>,
                   !.log = LogSearchQuery(query, search_type, results, logged)]

SearchResponse(op, query, search_type, limit, results, logged) ==
    [NoResp EXCEPT !.op = op, !.query = query, !.search_type = search_type,
                   !.limit = limit, !.results = results,
                   !.log = LogSearchQuery(query, search_type, results, logged)]

\* POST /search/conversations; "error": the embedding or a lookup raised
SearchConversations(query, search_type, limit) ==
    /\ resp = NoResp
    /\ \E outcome \in {"error", "logged", "unlogged"} :
          resp' = IF outcome = "error"
                  THEN Failed("search_conversations", 0)
                  ELSE SearchResponse("search_conversations", query, search_type, limit,
                                      search_conversations(query, search_type, limit),
                                      outcome = "logged")
    /\ UNCHANGED <<storeVars, clusterVars>>

\* POST /search/messages
SearchMessages(query, search_type, limit) ==
    /\ resp = NoResp
    /\ \E outcome \in {"error", "logged", "unlogged"} :
          resp' = IF outcome = "error"
                  THEN Failed("search_messages", 0)
                  ELSE SearchResponse("search_messages", query, search_type, limit,
                                      search_messages(query, search_type, limit),
                                      outcome = "logged")
    /\ UNCHANGED <<storeVars, clusterVars>>

Max(a, b) == IF a > b THEN a ELSE b

\* hybrid_search: search_conversations in hybrid mode with max(5, limit // 2)
\* and then search_messages in hybrid mode with
\* max(5, limit - len(conversations))
hybrid_search(query, limit) ==
    LET convs == search_conversations(query, "hybrid", Max(5, limit \div 2))
        msg_limit == limit - Len(convs)
    IN  [conversations |-> convs,
         messages |-> search_messages(query, "hybrid", Max(5, msg_limit))]

\* POST /search/hybrid; each of the two searches writes its own row of
\* search_queries, and either write can fail
HybridSearch(query, limit) ==
    /\ resp = NoResp
    /\ \E failed, conv_logged, msg_logged \in BOOLEAN :
          resp' = IF failed
                  THEN Failed("hybrid_search", 0)
                  ELSE LET r == hybrid_search(query, limit)
                       IN  [NoResp EXCEPT
                              !.op = "hybrid_search", !.query = query,
                              !.search_type = "hybrid", !.limit = limit,
                              !.results = r.conversations,
                              !.data = [messages |-> r.messages,
                                        logs |-> <<LogSearchQuery(query, "hybrid",
                                                       r.conversations, conv_logged),
                                                   LogSearchQuery(query, "hybrid",
                                                       r.messages, msg_logged)>>]]
    /\ UNCHANGED <<storeVars, clusterVars>>

\* EmbeddingService.find_similar_conversations(c, limit, threshold);
\* available: the vector index answers
FindSimilar(c, limit, threshold) ==
    /\ resp = NoResp
    /\ \E available \in BOOLEAN :
          resp' = IF available
                  THEN LET r == find_similar_conversations(c, limit, threshold)
                       IN  [NoResp EXCEPT
                               !.op = "find_similar",
                               !.status = r.status,
                               !.id = c,
                               !.limit = limit,
                               !.threshold = threshold,
                               !.results = r.results]
                  ELSE [NoResp EXCEPT
                           !.op = "find_similar",
                           !.status = "index_unavailable",
                           !.id = c,
                           !.limit = limit,
                           !.threshold = threshold]
    /\ UNCHANGED <<storeVars, clusterVars>>

\* GET /conversations/{c}/similar: 404 for a conversation that has no row;
\* of the service's results, those whose row is found
api_find_similar_conversations(c, limit, threshold) ==
    IF c \notin conversations
    THEN [status |-> "not_found", results |-> <<>>]
    ELSE LET r == find_similar_conversations(c, limit, threshold)
         IN  [status |-> r.status, results |-> Resolve(r.results, conversations)]

\* ------------------------------------------ conversations and their entries

MaxEntities == 2

\* the conversations that are imported, updated and deleted
EntityIds == 1..MaxEntities

\* the titles an update sets
Titles == {<<"b">>}

\* how a call of the embedding service ends: the embedding is generated and
\* the index takes the write, the embedding backend fails, or the index
\* refuses the write
StoreOutcomes == {"ok", "embed_failed", "write_failed"}

store_conversation_embedding_zero_vector(index, conversation_id, text, outcome) ==
    IF outcome = "write_failed"
    THEN [index |-> index, raised |-> TRUE]
    ELSE [index |-> IndexAdd(index, conversation_id,
                             IF outcome = "ok" THEN generate_embedding(text) ELSE 0),
          raised |-> FALSE]

\* store_conversation_embedding(conversation_id, text, metadata): the
\* embedding of the text, then conversation_collection.add of the vector
\* with the text and the metadata; every failure is raised to the caller
store_conversation_embedding(index, conversation_id, text, outcome) ==
    IF outcome = "ok"
    THEN [index |-> IndexAdd(index, conversation_id, generate_embedding(text)),
          raised |-> FALSE]
    ELSE [index |-> index, raised |-> TRUE]

\* store_message_embeddings(message_ids, texts, metadatas)
store_message_embeddings(index, message_ids, outcome) ==
    IF outcome = "ok"
    THEN [index |-> [k \in DOMAIN index |->
                       IF k \in message_ids /\ index[k] = NoVec
                       THEN MsgVector(k) ELSE index[k]],
          raised |-> FALSE]
    ELSE [index |-> index, raised |-> TRUE]

\* the text update_conversation_embedding embeds: "Title: <title>"
conversation_text(title) == <<"Title: ">> \o title

\* a request whose background task has not run yet
TaskPending ==
    /\ resp.op \in {"update_conversation", "delete_conversation"}
    /\ resp.status = "ok"
    /\ resp.data.task = "pending"

\* with_task(r, t): the response r with its background task in state t
WithTask(r, t) == [r EXCEPT !.data = [task |-> t]]

\* the embedding service is called directly: store_embedding(c, text, meta)
StoreEmbedding(c, text) ==
    /\ resp = NoResp
    /\ \E outcome \in StoreOutcomes :
          LET r == store_conversation_embedding(convIndex, c, text, outcome)
          IN  /\ convIndex' = r.index
              /\ resp' = [NoResp EXCEPT
                            !.op = "store_embedding",
                            !.status = IF r.raised THEN "error" ELSE "ok",
                            !.id = c,
                            !.query = text,
                            !.data = [outcome |-> outcome]]
    /\ UNCHANGED <<conversations, messages, titles, msgIndex>>
    /\ UNCHANGED clusterVars

\* store_message_embeddings is called directly for the messages ids
StoreMessages(ids) ==
    /\ resp = NoResp
    /\ \E outcome \in StoreOutcomes :
          LET r == store_message_embeddings(msgIndex, ids, outcome)
          IN  /\ msgIndex' = r.index
              /\ resp' = [NoResp EXCEPT
                            !.op = "store_message_embeddings",
                            !.status = IF r.raised THEN "error" ELSE "ok",
                            !.data = [outcome |-> outcome]]
    /\ UNCHANGED <<conversations, messages, titles, convIndex>>
    /\ UNCHANGED clusterVars

\* generate_embedding(text) (embed) and generate_embeddings(texts)
\* (embed_batch): the vectors, or the failure of the backend
Embed(texts) ==
    /\ resp = NoResp
    /\ \E outcome \in {"ok", "embed_failed"} :
          resp' = [NoResp EXCEPT
                     !.op = "embed",
                     !.status = IF outcome = "ok" THEN "ok" ELSE "error",
                     !.query = texts,
                     !.results = IF outcome = "ok"
                                 THEN [i \in 1..Len(texts) |->
                                         generate_embedding(texts[i])]
                                 ELSE <<>>,
                     !.data = [outcome |-> outcome]]
    /\ UNCHANGED <<storeVars, clusterVars>>

\* PUT /conversations/{c} with a new title: the row is updated and
\* committed, and the embedding is left to a background task
UpdateConversation(c, title) ==
    /\ resp = NoResp
    /\ IF c \notin conversations
       THEN /\ resp' = Done("update_conversation", c, "not_found")
            /\ titles' = titles
       ELSE \E committed \in BOOLEAN :
              IF committed
              THEN /\ titles' = [titles EXCEPT ![c] = title]
                   /\ resp' = WithTask([Done("update_conversation", c, "ok")
                                          EXCEPT !.query = title], "pending")
              ELSE /\ titles' = titles
                   /\ resp' = Failed("update_conversation", c)
    /\ UNCHANGED <<conversations, messages, convIndex, msgIndex>>
    /\ UNCHANGED clusterVars

\* the background task update_conversation_embedding: a failure of the
\* store is logged and goes no further
UpdateConversationEmbedding ==
    /\ TaskPending
    /\ resp.op = "update_conversation"
    /\ \E outcome \in StoreOutcomes :
          LET r == store_conversation_embedding(convIndex, resp.id,
                                                conversation_text(resp.query), outcome)
          IN  /\ convIndex' = r.index
              /\ resp' = WithTask(resp, IF r.raised THEN "failed" ELSE "done")
    /\ UNCHANGED <<conversations, messages, titles, msgIndex>>
    /\ UNCHANGED clusterVars

\* DELETE /conversations/{c}: the row goes, its messages go by the cascade,
\* and the index is left to a background task
DeleteConversation(c) ==
    /\ resp = NoResp
    /\ IF c \notin conversations
       THEN /\ resp' = Done("delete_conversation", c, "not_found")
            /\ UNCHANGED <<conversations, messages, titles>>
       ELSE \E committed \in BOOLEAN :
              IF committed
              THEN /\ conversations' = conversations \ {c}
                   /\ messages' = messages \ FileMessages(c)
                   /\ titles' = [titles EXCEPT ![c] = <<>>]
                   /\ resp' = WithTask(Done("delete_conversation", c, "ok"), "pending")
              ELSE /\ resp' = Failed("delete_conversation", c)
                   /\ UNCHANGED <<conversations, messages, titles>>
    /\ UNCHANGED <<convIndex, msgIndex>>
    /\ UNCHANGED clusterVars

\* the background task delete_conversation_embeddings: the entry of the
\* conversation is deleted from the conversation collection
DeleteConversationEmbeddings ==
    /\ TaskPending
    /\ resp.op = "delete_conversation"
    /\ \E ok \in BOOLEAN :
          /\ convIndex' = IF ok THEN IndexDelete(convIndex, {resp.id}) ELSE convIndex
          /\ resp' = WithTask(resp, IF ok THEN "done" ELSE "failed")
    /\ UNCHANGED <<conversations, messages, titles, msgIndex>>
    /\ UNCHANGED clusterVars

\* the response is returned to the caller; a background task of the
\* request has run by then
Return ==
    /\ resp # NoResp
    /\ ~TaskPending
    /\ resp' = NoResp
    /\ UNCHANGED <<storeVars, clusterVars>>

Next ==
    \/ \E c \in ConvIds : ImportConversation(c)
    \/ \E c \in ConvIds : StoreConversationEmbedding(c)
    \/ \E ids \in SUBSET MsgIds \ {{}} : StoreMessageEmbeddings(ids)
    \/ \E c \in ConvIds : DeleteConversationEmbedding(c)
    \/ \E k \in MsgKeys : DeleteMessageEmbeddings(k)
    \/ \E q \in Queries, t \in Modes, l \in Limits : SearchConversations(q, t, l)
    \/ \E q \in Queries, t \in Modes, l \in Limits : SearchMessages(q, t, l)
    \/ \E c \in ConvIds, l \in Limits, th \in Thresholds : FindSimilar(c, l, th)
    \/ Return

Spec == Init /\ [][Next]_vars

\* what an import left of a file: nothing (not imported), the rows alone,
\* the rows and the conversation's entry, these and the messages' entries
\* under their uuids, or the rows with entries stored under the row ids
ImportStates == {"absent", "none", "conversation", "all", "indexed"}

\* the stores a search can find
InitSearch ==
    \E imported \in [ConvIds -> ImportStates] :
        /\ conversations = {c \in ConvIds : imported[c] # "absent"}
        /\ messages = UNION {FileMessages(c) : c \in {d \in ConvIds : imported[d] # "absent"}}
        /\ titles = [c \in ConvIds |->
                       IF imported[c] # "absent" THEN FileTitle(c) ELSE <<>>]
        /\ convIndex = [c \in ConvIds |->
                          IF imported[c] \in {"conversation", "all", "indexed"}
                          THEN ConvVector(c) ELSE NoVec]
        /\ msgIndex = [k \in MsgKeys |->
                         IF k > MaxMsg
                         THEN IF imported[MsgOwner(k - MaxMsg)] = "all"
                              THEN MsgVector(k - MaxMsg) ELSE NoVec
                         ELSE IF imported[MsgOwner(k)] = "indexed"
                              THEN MsgVector(k) ELSE NoVec]
        /\ resp = NoResp
        /\ clusters = {}
        /\ members = {}
        /\ session = NoRows
        /\ ac = AcIdle

NextSearch ==
    \/ \E q \in Queries, t \in Modes, l \in Limits : SearchConversations(q, t, l)
    \/ \E q \in Queries, t \in Modes, l \in Limits : SearchMessages(q, t, l)
    \/ \E q \in Queries, l \in Limits : HybridSearch(q, l)
    \/ Return

SpecSearch == InitSearch /\ [][NextSearch]_vars

\* the conversations of the store and their index entries: import, update
\* and delete, each with its background task
NextEntity ==
    \/ \E c \in EntityIds : ImportConversation(c)
    \/ \E c \in EntityIds, t \in Titles : UpdateConversation(c, t)
    \/ UpdateConversationEmbedding
    \/ \E c \in EntityIds : DeleteConversation(c)
    \/ DeleteConversationEmbeddings
    \/ Return

SpecEntity == Init /\ [][NextEntity]_vars

\* the embedding service called directly
NextService ==
    \/ \E c \in ConvIds, t \in Queries : StoreEmbedding(c, t)
    \/ \E ids \in SUBSET MsgIds \ {{}} : StoreMessages(ids)
    \/ \E texts \in {<<t>> : t \in Queries} \cup {<<t, u>> : t, u \in Titles} : Embed(texts)
    \/ \E c \in ConvIds : DeleteConversationEmbedding(c)
    \/ Return

SpecService == Init /\ [][NextService]_vars

\* ----------------------------------------------------- auto clustering

MaxLabel == 1

MaxCandidates == 4

\* the conversations an auto_cluster run can find in the store
CandidateIds == 1..MaxCandidates

\* the labels HDBSCAN gives the rows of the matrix; -1 is noise
Labels == (-1)..MaxLabel

MinClusterSizes == {2, 3}

MaxClustersChoices == {1, 2}

\* db.query(Conversation).all(): the rows of the conversations table
AllConversations == LatestFirst(conversations, [c \in conversations |-> -c])

\* conversation_collection.get(ids=conv_ids, include=['embeddings']): one
\* embedding per id that has an entry; an id without one gives no row
MatrixRows(conv_ids) == Cardinality({c \in Range(conv_ids) : convIndex[c] # NoVec})

\* the ids whose embeddings the get() returns, in the order asked for: row i
\* of the matrix is made from the vector of MatrixRowIds(conv_ids)[i]
MatrixRowIds(conv_ids) ==
    LET Stored(c) == convIndex[c] # NoVec
    IN  SelectSeq(conv_ids, Stored)

\* calculate_similarity_matrix(conv_ids): the cosine of every pair of rows
calculate_similarity_matrix(conv_ids) ==
    LET ids == MatrixRowIds(conv_ids)
    IN  [i \in 1..Len(ids) |->
            [j \in 1..Len(ids) |-> Cosine(convIndex[ids[i]], convIndex[ids[j]])]]

\* distance_matrix = 1 - similarity_matrix
distance_matrix(similarity_matrix) ==
    [i \in DOMAIN similarity_matrix |->
        [j \in DOMAIN similarity_matrix |-> Unit - similarity_matrix[i][j]]]

\* clusterer.fit_predict(distance_matrix): the labelings HDBSCAN can give.
\* The clusterer is built without allow_single_cluster, so the root of its
\* tree is never a cluster: rows that are all at distance 0 of each other
\* have no split and are all noise.  Of any other matrix every labeling is
\* taken to be possible.
fit_predict(distances) ==
    IF \A i, j \in DOMAIN distances : distances[i][j] = 0
    THEN {[i \in DOMAIN distances |-> -1]}
    ELSE [DOMAIN distances -> Labels]

\* clusterer.probabilities_, the membership strength of each row, in
\* hundredths; noise rows have none
Probabilities(labels) ==
    [i \in 1..Len(labels) |->
        IF labels[i] = -1 THEN 0 ELSE IF i % 2 = 1 THEN Unit ELSE Unit \div 2]

\* set(cluster_labels) without -1, in the order the loop visits it
RECURSIVE LabelOrder(_)
LabelOrder(S) ==
    IF S = {} THEN <<>>
    ELSE LET l == CHOOSE x \in S : \A y \in S : x <= y
         IN  <<l>> \o LabelOrder(S \ {l})

unique_labels(labels) == LabelOrder(Range(labels) \ {-1})

cluster_conv_indices_with_noise(labels, label) ==
    {i \in 1..Len(labels) : labels[i] \in {label, -1}}

\* np.where(cluster_labels == label)[0]
cluster_conv_indices(labels, label) == {i \in 1..Len(labels) : labels[i] = label}

\* the palette of _generate_cluster_color
Palette ==
    <<"#6366f1", "#8b5cf6", "#06b6d4", "#10b981", "#f59e0b",
      "#ef4444", "#f97316", "#84cc16", "#ec4899", "#6b7280">>

generate_cluster_color_no_wrap(index) == Palette[Min(index, Len(Palette) - 1) + 1]

\* _generate_cluster_color(index): colors[index % len(colors)]
generate_cluster_color(index) == Palette[(index % Len(Palette)) + 1]

\* the color a cluster gets when the request names none
DefaultColor == "#6366f1"

CapReached_off_by_one(clusters_created, max_clusters) == clusters_created > max_clusters

\* clusters_created >= max_clusters: the loop over the labels ends
CapReached(clusters_created, max_clusters) == clusters_created >= max_clusters

NotEnough_only_empty(convs, min_cluster_size) == Len(convs) = 0

\* len(conversations) < min_cluster_size
NotEnough(convs, min_cluster_size) == Len(convs) < min_cluster_size

AddCluster_commits(db, cluster, memberships) ==
    [db EXCEPT !.clusters = @ \cup {cluster},
               !.members = @ \cup memberships]

\* db.add(cluster); db.flush(); db.add(membership) for each member: the rows
\* are in the session's open transaction and in no table
AddCluster(db, cluster, memberships) ==
    [db EXCEPT !.session = [clusters |-> @.clusters \cup {cluster},
                            members |-> @.members \cup memberships]]

Commit_replaces_auto(db) ==
    [clusters |-> {c \in db.clusters : ~c.auto_generated} \cup db.session.clusters,
     members |-> {a \in db.members :
                     \E c \in db.clusters : c.id = a.cluster_id /\ ~c.auto_generated}
                 \cup db.session.members,
     session |-> NoRows]

\* db.commit(): the session's rows reach the tables
Commit(db) ==
    [clusters |-> db.clusters \cup db.session.clusters,
     members |-> db.members \cup db.session.members,
     session |-> NoRows]

\* db.rollback(): the session's rows are discarded
Rollback(db) == [db EXCEPT !.session = NoRows]

Db == [clusters |-> clusters, members |-> members, session |-> session]

SetDb(db) ==
    /\ clusters' = db.clusters
    /\ members' = db.members
    /\ session' = db.session

\* the uuid4 of a new cluster row: an id no cluster row carries, in the
\* tables or in the session
NewClusterId(db) ==
    LET used == {c.id : c \in db.clusters \cup db.session.clusters}
    IN  IF used = {} THEN 1
        ELSE (CHOOSE x \in used : \A y \in used : y <= x) + 1

\* except Exception: db.rollback(); raise
AutoClusterFail ==
    /\ SetDb(Rollback(Db))
    /\ ac' = [ac EXCEPT !.pc = "failed"]
    /\ resp' = Failed("auto_cluster", 0)

\* _perform_auto_clustering is called: the conversations are read, and a
\* store with fewer than min_cluster_size of them ends the run at once
AutoClusterStart(min_cluster_size, max_clusters) ==
    /\ ac.pc = "idle"
    /\ LET convs == AllConversations
           run == [ac EXCEPT !.min_cluster_size = min_cluster_size,
                             !.max_clusters = max_clusters,
                             !.conversations = convs]
       IN  IF NotEnough(convs, min_cluster_size)
           THEN /\ ac' = [run EXCEPT !.pc = "done"]
                /\ resp' = [NoResp EXCEPT
                              !.op = "auto_cluster", !.status = "ok",
                              !.data = [clusters_created |-> 0,
                                        conversations_clustered |-> 0]]
           ELSE /\ ac' = [run EXCEPT !.pc = "matrix"]
                /\ resp' = resp
    /\ UNCHANGED <<storeVars, clusters, members, session>>

\* calculate_similarity_matrix(conv_ids): the index is read; the read can
\* fail, and a result with no embedding at all cannot be normalised
AutoClusterMatrix ==
    /\ ac.pc = "matrix"
    /\ \E ok \in BOOLEAN :
          LET nrows == MatrixRows(ac.conversations)
          IN  IF ok /\ nrows > 0
              THEN /\ ac' = [ac EXCEPT !.pc = "fit", !.index_queried = TRUE,
                                       !.nrows = nrows]
                   /\ UNCHANGED <<resp, clusters, members, session>>
              ELSE /\ SetDb(Rollback(Db))
                   /\ ac' = [ac EXCEPT !.pc = "failed", !.index_queried = TRUE]
                   /\ resp' = Failed("auto_cluster", 0)
    /\ UNCHANGED storeVars

\* HDBSCAN(...).fit_predict(distance_matrix): a label for every row, or an
\* error of the library
AutoClusterFit ==
    /\ ac.pc = "fit"
    /\ \/ \E labels \in fit_predict(distance_matrix(
                            calculate_similarity_matrix(ac.conversations))) :
             /\ ac' = [ac EXCEPT !.pc = "labels", !.labels = labels,
                                 !.todo = unique_labels(labels)]
             /\ UNCHANGED <<resp, clusters, members, session>>
       \/ AutoClusterFail
    /\ UNCHANGED storeVars

\* one pass of "for label in unique_labels": the members of the label are
\* the conversations at the positions of its rows; a group smaller than
\* min_cluster_size is skipped, any other becomes a cluster row and one
\* membership row per member, all carrying the probability of the first row
AutoClusterLabel ==
    /\ ac.pc = "labels"
    /\ ac.todo # <<>>
    /\ ~CapReached(ac.clusters_created, ac.max_clusters)
    /\ LET label == Head(ac.todo)
           indices == cluster_conv_indices(ac.labels, label)
           first == CHOOSE i \in indices : \A j \in indices : i <= j
           cluster_conversations == {ac.conversations[i] : i \in indices}
           cluster == [id |-> NewClusterId(Db),
                       number |-> ac.clusters_created + 1,
                       auto_generated |-> TRUE,
                       color |-> generate_cluster_color(ac.clusters_created)]
           memberships == {[conversation_id |-> c,
                            cluster_id |-> cluster.id,
                            confidence_score |-> Probabilities(ac.labels)[first]] :
                              c \in cluster_conversations}
       IN  IF Cardinality(cluster_conversations) < ac.min_cluster_size
           THEN /\ ac' = [ac EXCEPT !.todo = Tail(@)]
                /\ UNCHANGED <<resp, clusters, members, session>>
           ELSE \/ /\ SetDb(AddCluster(Db, cluster, memberships))
                   /\ ac' = [ac EXCEPT
                               !.todo = Tail(@),
                               !.clusters_created = @ + 1,
                               !.conversations_clustered =
                                   @ + Cardinality(cluster_conversations)]
                   /\ resp' = resp
                \/ AutoClusterFail
    /\ UNCHANGED storeVars

\* the loop is over (no label left, or max_clusters reached): db.commit()
\* and the result; a commit that fails is rolled back
AutoClusterCommit ==
    /\ ac.pc = "labels"
    /\ ac.todo = <<>> \/ CapReached(ac.clusters_created, ac.max_clusters)
    /\ \/ /\ SetDb(Commit(Db))
          /\ ac' = [ac EXCEPT !.pc = "done"]
          /\ resp' = [NoResp EXCEPT
                        !.op = "auto_cluster", !.status = "ok",
                        !.data = [clusters_created |-> ac.clusters_created,
                                  conversations_clustered |-> ac.conversations_clustered,
                                  total_conversations |-> Len(ac.conversations)]]
       \/ AutoClusterFail
    /\ UNCHANGED storeVars

\* the stores an auto_cluster run can find: any conversations, each with or
\* without its entry in the conversation index; no cluster yet
InitCluster ==
    /\ conversations \in SUBSET CandidateIds
    /\ messages = UNION {FileMessages(c) : c \in conversations}
    /\ titles = [c \in CandidateIds |->
                   IF c \in conversations THEN FileTitle(c) ELSE <<>>]
    /\ convIndex \in [CandidateIds -> Angles \cup {NoVec}]
    /\ \A c \in CandidateIds :
           convIndex[c] \in IF c \in conversations
                            THEN {NoVec, ConvVector(c)} ELSE {NoVec}
    /\ msgIndex = [k \in MsgKeys |-> NoVec]
    /\ resp = NoResp
    /\ clusters = {}
    /\ members = {}
    /\ session = NoRows
    /\ ac = AcIdle

NextCluster ==
    \/ \E m \in MinClusterSizes, k \in MaxClustersChoices : AutoClusterStart(m, k)
    \/ AutoClusterMatrix
    \/ AutoClusterFit
    \/ AutoClusterLabel
    \/ AutoClusterCommit

SpecCluster == InitCluster /\ [][NextCluster]_vars

\* the stores whose conversations are all in the index, under one of two
\* vectors: conversations of the same summary text have the same vector
InitVectors ==
    /\ conversations \in SUBSET CandidateIds
    /\ messages = UNION {FileMessages(c) : c \in conversations}
    /\ titles = [c \in CandidateIds |->
                   IF c \in conversations THEN FileTitle(c) ELSE <<>>]
    /\ convIndex \in [CandidateIds -> {NoVec, ConvVector(2), ConvVector(4)}]
    /\ \A c \in CandidateIds : (convIndex[c] = NoVec) <=> (c \notin conversations)
    /\ msgIndex = [k \in MsgKeys |-> NoVec]
    /\ resp = NoResp
    /\ clusters = {}
    /\ members = {}
    /\ session = NoRows
    /\ ac = AcIdle

SpecVectors == InitVectors /\ [][NextCluster]_vars

\* ------------------------------------------------- one run after another

MaxStoredClusters == 3

\* a cluster made by hand, and its one member
ManualCluster ==
    [id |-> 1, number |-> 0, auto_generated |-> FALSE, color |-> DefaultColor]

ManualMember == [conversation_id |-> 1, cluster_id |-> 1, confidence_score |-> Unit]

\* _perform_auto_clustering returns or raises: the run is over, another
\* request can start one
AutoClusterEnd ==
    /\ ac.pc \in {"done", "failed"}
    /\ ac' = AcIdle
    /\ resp' = NoResp
    /\ UNCHANGED <<storeVars, clusters, members, session>>

\* a store of MaxConv conversations, all in the index, that already has a
\* cluster made by hand
InitRuns ==
    /\ conversations = ConvIds
    /\ messages = UNION {FileMessages(c) : c \in conversations}
    /\ titles = [c \in CandidateIds |->
                   IF c \in conversations THEN FileTitle(c) ELSE <<>>]
    /\ convIndex = [c \in CandidateIds |->
                      IF c \in conversations THEN ConvVector(c) ELSE NoVec]
    /\ msgIndex = [k \in MsgKeys |-> NoVec]
    /\ resp = NoResp
    /\ clusters = {ManualCluster}
    /\ members = {ManualMember}
    /\ session = NoRows
    /\ ac = AcIdle

NextRuns ==
    \/ /\ Cardinality(clusters) < MaxStoredClusters
       /\ \E m \in MinClusterSizes, k \in MaxClustersChoices : AutoClusterStart(m, k)
    \/ AutoClusterMatrix
    \/ AutoClusterFit
    \/ AutoClusterLabel
    \/ AutoClusterCommit
    \/ AutoClusterEnd

SpecRuns == InitRuns /\ [][NextRuns]_vars

\* ------------------------------------------- the loop over many labels

MaxPaletteLabels == 12

\* max_clusters when the request names none
DefaultMaxClusters == 20

\* the labels of the rows when label j - 1 has sizes[j] rows
RECURSIVE RowsOf(_, _)
RowsOf(sizes, j) ==
    IF j > Len(sizes) THEN <<>>
    ELSE [i \in 1..sizes[j] |-> j - 1] \o RowsOf(sizes, j + 1)

\* a run that is entering its loop over the labels: every conversation has
\* its row, min_cluster_size is 2, max_clusters the default, and the fit
\* gave MaxPaletteLabels labels of one row (too small) or two rows each
InitPalette ==
    \E sizes \in [1..MaxPaletteLabels -> {1, 2}] :
        LET labels == RowsOf(sizes, 1)
            n == Len(labels)
        IN  /\ conversations = 1..n
            /\ messages = UNION {FileMessages(c) : c \in 1..n}
            /\ titles = [c \in 1..n |-> FileTitle(c)]
            /\ convIndex = [c \in 1..n |-> ConvVector(c)]
            /\ msgIndex = [k \in MsgKeys |-> NoVec]
            /\ resp = NoResp
            /\ clusters = {}
            /\ members = {}
            /\ session = NoRows
            /\ ac = [AcIdle EXCEPT !.pc = "labels",
                                   !.min_cluster_size = 2,
                                   !.max_clusters = DefaultMaxClusters,
                                   !.conversations = [i \in 1..n |-> i],
                                   !.index_queried = TRUE,
                                   !.nrows = n,
                                   !.labels = labels,
                                   !.todo = unique_labels(labels)]

NextPalette ==
    \/ AutoClusterLabel
    \/ AutoClusterCommit

SpecPalette == InitPalette /\ [][NextPalette]_vars

\* ------------------------------------------------- the name of a cluster

MaxMembers == 2

\* the vocabulary of _generate_cluster_info, as sequences of characters
Keywords ==
    <<<<"r", "e", "a", "c", "t">>,
      <<"p", "y", "t", "h", "o", "n">>,
      <<"j", "a", "v", "a", "s", "c", "r", "i", "p", "t">>,
      <<"a", "p", "i">>,
      <<"d", "a", "t", "a", "b", "a", "s", "e">>,
      <<"f", "r", "o", "n", "t", "e", "n", "d">>,
      <<"b", "a", "c", "k", "e", "n", "d">>,
      <<"b", "u", "g">>,
      <<"f", "e", "a", "t", "u", "r", "e">>,
      <<"t", "e", "s", "t", "i", "n", "g">>,
      <<"d", "e", "p", "l", "o", "y", "m", "e", "n", "t">>,
      <<"a", "u", "t", "h", "e", "n", "t", "i", "c", "a", "t", "i", "o", "n">>,
      <<"s", "e", "c", "u", "r", "i", "t", "y">>,
      <<"p", "e", "r", "f", "o", "r", "m", "a", "n", "c", "e">>,
      <<"u", "i">>,
      <<"u", "x">>,
      <<"d", "e", "s", "i", "g", "n">>,
      <<"m", "o", "b", "i", "l", "e">>,
      <<"w", "e", "b">>,
      <<"d", "a", "t", "a">>,
      <<"m", "a", "c", "h", "i", "n", "e", " ", "l", "e", "a", "r", "n", "i", "n", "g">>>>

\* str.upper() of a character
Upper(ch) ==
    CASE ch = "a" -> "A" [] ch = "b" -> "B" [] ch = "c" -> "C" [] ch = "d" -> "D"
      [] ch = "e" -> "E" [] ch = "f" -> "F" [] ch = "g" -> "G" [] ch = "h" -> "H"
      [] ch = "i" -> "I" [] ch = "j" -> "J" [] ch = "k" -> "K" [] ch = "l" -> "L"
      [] ch = "m" -> "M" [] ch = "n" -> "N" [] ch = "o" -> "O" [] ch = "p" -> "P"
      [] ch = "q" -> "Q" [] ch = "r" -> "R" [] ch = "s" -> "S" [] ch = "t" -> "T"
      [] ch = "u" -> "U" [] ch = "v" -> "V" [] ch = "w" -> "W" [] ch = "x" -> "X"
      [] ch = "y" -> "Y" [] ch = "z" -> "Z"
      [] OTHER -> ch

\* s is in text ("s in text" of two strings)
Contains(text, s) ==
    \E i \in 0..(Len(text) - Len(s)) : \A j \in 1..Len(s) : text[i + j] = s[j]

\* sep.join(parts)
RECURSIVE Join(_, _)
Join(parts, sep) ==
    IF parts = <<>> THEN <<>>
    ELSE IF Len(parts) = 1 THEN parts[1]
    ELSE parts[1] \o sep \o Join(Tail(parts), sep)

\* s.split('/'): the segments between the slashes, the empty ones too
RECURSIVE Split(_)
Split(s) ==
    IF \A i \in 1..Len(s) : s[i] # "/" THEN <<s>>
    ELSE LET k == CHOOSE i \in 1..Len(s) :
                     s[i] = "/" /\ \A j \in 1..(i - 1) : s[j] # "/"
         IN  <<SubSeq(s, 1, k - 1)>> \o Split(SubSeq(s, k + 1, Len(s)))

\* str.title(): the first letter of every word in upper case, the others
\* in lower case
TitleStr(s) ==
    LET IsLetter(ch) == Upper(ch) # ch \/ Lower(ch) # ch
    IN  [i \in 1..Len(s) |->
            IF i = 1 \/ ~IsLetter(s[i - 1]) THEN Upper(s[i]) ELSE Lower(s[i])]

\* the last n elements of a list (list[-n:])
LastN(list, n) == SubSeq(list, Max(1, Len(list) - n + 1), Len(list))

\* the values of a column that are not None or empty, in member order
Truthy(convs, column) ==
    LET Has(conv) == conv[column] # <<>>
        kept == SelectSeq(convs, Has)
    IN  [i \in 1..Len(kept) |-> kept[i][column]]

\* [kw for kw in keywords if kw in all_text]
found_keywords(convs) ==
    LET joined == Join(Truthy(convs, "title") \o Truthy(convs, "summary"), <<" ">>)
        all_text == [i \in 1..Len(joined) |-> Lower(joined[i])]
        Found(kw) == Contains(all_text, kw)
    IN  SelectSeq(Keywords, Found)

\* the segments of the first project path that occur in every project path
common_segments(projects) ==
    LET InAll(segment) == \A i \in 1..Len(projects) : Contains(projects[i], segment)
    IN  SelectSeq(Split(projects[1]), InAll)

MixedTopics == <<"M", "i", "x", "e", "d", " ", "T", "o", "p", "i", "c", "s">>

\* the name _generate_cluster_info gives a cluster
generate_cluster_name(convs) ==
    LET found == found_keywords(convs)
        projects == Truthy(convs, "project_path")
    IN  IF found # <<>> THEN TitleStr(Join(Take(found, 3), <<",", " ">>))
        ELSE IF projects # <<>>
        THEN IF Len(common_segments(projects)) >= 2
             THEN Join(LastN(common_segments(projects), 2), <<"/">>)
             ELSE <<"P", "r", "o", "j", "e", "c", "t", " ",
                    "D", "i", "s", "c", "u", "s", "s", "i", "o", "n", "s">>
        ELSE MixedTopics

\* the titles, summaries and project paths of the members; <<>> is None
Members ==
    [title : {<<>>, <<"q">>, <<"m", "a", "c", "h", "i", "n", "e">>},
     summary : {<<>>, <<"l", "e", "a", "r", "n", "i", "n", "g">>,
                <<"A", "p", "i", " ", "g", "u", "i", "d", "e">>},
     project_path : {<<>>, <<"/", "x">>, <<"/", "y">>, <<"/", "h", "/", "x">>}]

\* the member lists a cluster can have
InitName ==
    /\ conversations = {}
    /\ messages = {}
    /\ titles = [c \in ConvIds |-> <<>>]
    /\ convIndex = [c \in ConvIds |-> NoVec]
    /\ msgIndex = [k \in MsgKeys |-> NoVec]
    /\ \E cluster_conversations \in [1..MaxMembers -> Members] :
          resp = [NoResp EXCEPT !.data = [members |-> cluster_conversations]]
    /\ clusters = {}
    /\ members = {}
    /\ session = NoRows
    /\ ac = AcIdle

\* _generate_cluster_info(cluster_conversations)
GenerateClusterInfo ==
    /\ resp.op = "none"
    /\ resp' = [resp EXCEPT
                  !.op = "cluster_info", !.status = "ok",
                  !.data = [members |-> resp.data.members,
                            name |-> generate_cluster_name(resp.data.members)]]
    /\ UNCHANGED <<storeVars, clusterVars>>

NextName == GenerateClusterInfo

SpecName == InitName /\ [][NextName]_vars

\* -------------------------------------------------- clusters kept by hand

MaxClusters == 2

\* the uuids cluster rows can get
ClusterIds == 1..MaxClusters

ClusterNames == {"x", "y"}

\* the conversations of the store the cluster requests work on
ClusteredStore == {1, 2}

\* uuid4: an id that no row of the database carries
FreshClusterIds ==
    ClusterIds \ ({c.id : c \in clusters} \cup {a.cluster_id : a \in members})

\* db.query(ConversationCluster).filter(ConversationCluster.id == id).first()
ClusterById(id) == {c \in clusters : c.id = id}

DeleteClusterRows_no_cascade(cls, mbs, id) ==
    [clusters |-> {c \in cls : c.id # id}, members |-> mbs]

\* db.delete(cluster); db.commit(): the row goes, and with it, by the
\* cascade of ConversationCluster.members, every membership of the cluster
DeleteClusterRows(cls, mbs, id) ==
    [clusters |-> {c \in cls : c.id # id},
     members |-> {a \in mbs : a.cluster_id # id}]

\* POST /clusters: a name some cluster already has is refused
CreateCluster(name, auto_generated) ==
    /\ resp = NoResp
    /\ FreshClusterIds # {}
    /\ IF \E c \in clusters : c.name = name
       THEN /\ resp' = Done("create_cluster", 0, "name_exists")
            /\ clusters' = clusters
       ELSE \E id \in FreshClusterIds, committed \in BOOLEAN :
              IF committed
              THEN /\ clusters' = clusters \cup
                                  {[id |-> id, name |-> name,
                                    auto_generated |-> auto_generated,
                                    color |-> DefaultColor]}
                   /\ resp' = Done("create_cluster", id, "ok")
              ELSE /\ clusters' = clusters
                   /\ resp' = Failed("create_cluster", 0)
    /\ UNCHANGED <<storeVars, members, session, ac>>

\* PUT /clusters/{id} with a new name
UpdateCluster(id, name) ==
    /\ resp = NoResp
    /\ IF ClusterById(id) = {}
       THEN /\ resp' = Done("update_cluster", id, "not_found")
            /\ clusters' = clusters
       ELSE \E committed \in BOOLEAN :
              IF committed
              THEN /\ clusters' = {IF c.id = id THEN [c EXCEPT !.name = name] ELSE c :
                                     c \in clusters}
                   /\ resp' = Done("update_cluster", id, "ok")
              ELSE /\ clusters' = clusters
                   /\ resp' = Failed("update_cluster", id)
    /\ UNCHANGED <<storeVars, members, session, ac>>

\* DELETE /clusters/{id}
DeleteCluster(id) ==
    /\ resp = NoResp
    /\ IF ClusterById(id) = {}
       THEN /\ resp' = Done("delete_cluster", id, "not_found")
            /\ UNCHANGED <<clusters, members>>
       ELSE \E committed \in BOOLEAN :
              IF committed
              THEN LET rows == DeleteClusterRows(clusters, members, id)
                   IN  /\ clusters' = rows.clusters
                       /\ members' = rows.members
                       /\ resp' = [Done("delete_cluster", id, "ok") EXCEPT
                                     !.data = [cascaded |->
                                        Cardinality(members \ rows.members)]]
              ELSE /\ resp' = Failed("delete_cluster", id)
                   /\ UNCHANGED <<clusters, members>>
    /\ UNCHANGED <<storeVars, session, ac>>

\* POST /clusters/{id}/conversations/{c}
AddConversationToCluster(id, c) ==
    /\ resp = NoResp
    /\ IF ClusterById(id) = {} \/ c \notin conversations
       THEN /\ resp' = Done("add_conversation_to_cluster", id, "not_found")
            /\ members' = members
       ELSE IF \E a \in members : a.conversation_id = c /\ a.cluster_id = id
       THEN /\ resp' = Done("add_conversation_to_cluster", id, "already_in_cluster")
            /\ members' = members
       ELSE \E committed \in BOOLEAN :
              IF committed
              THEN /\ members' = members \cup
                                 {[conversation_id |-> c, cluster_id |-> id,
                                   confidence_score |-> Unit]}
                   /\ resp' = Done("add_conversation_to_cluster", id, "ok")
              ELSE /\ members' = members
                   /\ resp' = Failed("add_conversation_to_cluster", id)
    /\ UNCHANGED <<storeVars, clusters, session, ac>>

\* DELETE /clusters/{id}/conversations/{c}
RemoveConversationFromCluster(id, c) ==
    /\ resp = NoResp
    /\ IF ~ \E a \in members : a.conversation_id = c /\ a.cluster_id = id
       THEN /\ resp' = Done("remove_conversation_from_cluster", id, "not_found")
            /\ members' = members
       ELSE \E committed \in BOOLEAN :
              IF committed
              THEN /\ members' = {a \in members :
                                    ~(a.conversation_id = c /\ a.cluster_id = id)}
                   /\ resp' = Done("remove_conversation_from_cluster", id, "ok")
              ELSE /\ members' = members
                   /\ resp' = Failed("remove_conversation_from_cluster", id)
    /\ UNCHANGED <<storeVars, clusters, session, ac>>

\* a store with conversations and no cluster yet
InitClusters ==
    /\ conversations = ClusteredStore
    /\ messages = UNION {FileMessages(c) : c \in conversations}
    /\ titles = [c \in ConvIds |-> IF c \in conversations THEN FileTitle(c) ELSE <<>>]
    /\ convIndex = [c \in ConvIds |-> NoVec]
    /\ msgIndex = [k \in MsgKeys |-> NoVec]
    /\ resp = NoResp
    /\ clusters = {}
    /\ members = {}
    /\ session = NoRows
    /\ ac = AcIdle

NextClusters ==
    \/ \E n \in ClusterNames, g \in BOOLEAN : CreateCluster(n, g)
    \/ \E id \in ClusterIds, n \in ClusterNames : UpdateCluster(id, n)
    \/ \E id \in ClusterIds : DeleteCluster(id)
    \/ \E id \in ClusterIds, c \in ConvIds : AddConversationToCluster(id, c)
    \/ \E id \in ClusterIds, c \in ConvIds : RemoveConversationFromCluster(id, c)
    \/ Return

SpecClusters == InitClusters /\ [][NextClusters]_vars

\* ----------------------------------------------------------------- claims

IsSearch == resp.op \in {"search_conversations", "search_messages"} /\ resp.status = "ok"

IsHybrid == IsSearch /\ resp.search_type = "hybrid"

\* The stores are as the handler read them while its response is held in
\* resp, so the passes of the request can be evaluated again.
RespMerged ==
    IF resp.op = "search_conversations"
    THEN merged_conversations(resp.query, resp.search_type, resp.limit)
    ELSE merged_messages(resp.query, resp.search_type, resp.limit)

\* the semantic pass of the request: the index results that have a row
RespSemantic ==
    IF resp.op = "search_conversations"
    THEN Resolve(service_search_conversations(resp.query, resp.limit), conversations)
    ELSE Resolve(service_search_messages(resp.query, resp.limit * 2), messages)

RespText ==
    IF resp.op = "search_conversations"
    THEN text_search_conversations(resp.query, resp.limit)
    ELSE text_search_messages(resp.query, resp.limit)

\* the response to the same request made with search_type "semantic"
RespSemanticOnly ==
    IF resp.op = "search_conversations"
    THEN search_conversations(resp.query, "semantic", resp.limit)
    ELSE search_messages(resp.query, "semantic", resp.limit)

\* C1: a hybrid search of conversations or of messages with limit L returns
\* at most L results.
C1_HybridAtMostLimit ==
    IsHybrid => Len(resp.results) <= resp.limit

\* a hybrid message search whose two passes together found more than L
C1_Witness ==
    /\ IsHybrid
    /\ resp.op = "search_messages"
    /\ Len(RespSemantic) > 0
    /\ Len(RespMerged) > resp.limit
    /\ Len(resp.results) = resp.limit

C3_FindSimilarExcludesSelfAndBelowThreshold ==
    (resp.op = "find_similar" /\ resp.status = "ok") =>
        \A i \in 1..Len(resp.results) :
            /\ resp.results[i].id # resp.id
            /\ resp.results[i].similarity # None
            /\ resp.results[i].similarity[1] >= resp.threshold

\* find_similar answered with a neighbour while the index held the entry of
\* the conversation itself and an entry below the threshold
C3_Witness ==
    /\ resp.op = "find_similar" /\ resp.status = "ok"
    /\ Len(resp.results) > 0
    /\ convIndex[resp.id] # NoVec
    /\ \E k \in ConvIds :
           /\ k # resp.id
           /\ convIndex[k] # NoVec
           /\ Unit - CosineDistance(convIndex[k], convIndex[resp.id]) < resp.threshold

\* C4: an auto_cluster run is all-or-nothing. No cluster row and no
\* membership row is in the tables before the run has ended with its single
\* commit; a run that failed, at whatever step, has rolled back every row
\* it had written, those of fully processed labels included, and answers
\* with the error; a run that succeeded has persisted every row it counted.
C4_AutoClusterAllOrNothing ==
    /\ ac.pc # "done" => clusters = {} /\ members = {}
    /\ ac.pc = "failed" => session = NoRows /\ resp.status = "error"
    /\ ac.pc = "done" =>
          /\ session = NoRows
          /\ Cardinality(clusters) = ac.clusters_created
          /\ Cardinality(members) = ac.conversations_clustered

\* the run failed at the write of a later label, after a label had been
\* fully processed, and nothing of it is in the tables
C4_Witness ==
    /\ ac.pc = "failed"
    /\ ac.clusters_created >= 1
    /\ ac.todo # <<>>
    /\ ac.clusters_created < ac.max_clusters
    /\ Cardinality(cluster_conv_indices(ac.labels, Head(ac.todo))) >= ac.min_cluster_size
    /\ clusters = {} /\ members = {} /\ session = NoRows

\* C5: with fewer conversations than min_cluster_size, auto_cluster ends at
\* once with the normal result clusters_created = 0 and
\* conversations_clustered = 0: no error, no read of the vector index, no
\* cluster row and no membership row, committed or pending.
C5_TooFewCandidatesGivesZeroResult ==
    (ac.pc # "idle" /\ Cardinality(conversations) < ac.min_cluster_size) =>
        /\ ac.pc = "done"
        /\ resp.op = "auto_cluster" /\ resp.status = "ok"
        /\ resp.data.clusters_created = 0
        /\ resp.data.conversations_clustered = 0
        /\ ~ac.index_queried
        /\ clusters = {} /\ members = {} /\ session = NoRows

\* two conversations, both in the index, and min_cluster_size = 3
C5_Witness ==
    /\ ac.pc = "done"
    /\ ac.min_cluster_size = 3
    /\ Cardinality(conversations) = 2
    /\ \A c \in conversations : convIndex[c] # NoVec
    /\ resp.op = "auto_cluster" /\ resp.status = "ok"
    /\ resp.data.clusters_created = 0

\* the position of id in a list of results (0: not in it)
Pos(list, id) ==
    IF \E i \in 1..Len(list) : list[i].id = id
    THEN CHOOSE i \in 1..Len(list) : list[i].id = id
    ELSE 0

TextOnly(x) == x.similarity = None

\* C7: in a hybrid result every text-only match is below every scored
\* semantic match, and the truncation to the limit drops no scored
\* semantic match while a text-only match is kept.
C7_TextOnlyBelowScored ==
    IsHybrid =>
        /\ \A i, j \in 1..Len(resp.results) :
               (TextOnly(resp.results[i]) /\ ~TextOnly(resp.results[j])) => j < i
        /\ (\E i \in 1..Len(resp.results) : TextOnly(resp.results[i]))
               => \A j \in 1..Len(RespSemantic) :
                      Pos(resp.results, RespSemantic[j].id) > 0

\* C8: the result of a search in any mode is the first `limit` elements of
\* the merged list (the semantic results in index order, then the text-only
\* matches in text-pass order) sorted by similarity, largest first, a
\* missing similarity counting as 0 and equal similarities keeping their
\* order in the merged list.
C8_SortedStablePrefix ==
    IsSearch =>
        LET merged == RespMerged
            res == resp.results
            \* x is sorted before y
            Before(x, y) ==
                \/ SortKey(x) > SortKey(y)
                \/ SortKey(x) = SortKey(y) /\ Pos(merged, x.id) < Pos(merged, y.id)
        IN  /\ Len(res) = Min(resp.limit, Len(merged))
            /\ \A i \in 1..Len(res) :
                   Pos(merged, res[i].id) > 0 /\ merged[Pos(merged, res[i].id)] = res[i]
            /\ \A i, j \in 1..Len(res) : i < j => Before(res[i], res[j])
            /\ \A k \in 1..Len(merged) :
                   Pos(res, merged[k].id) = 0
                       => \A i \in 1..Len(res) : Before(res[i], merged[k])
            /\ \A i, j \in 1..Len(merged) :
                   (i < j /\ TextOnly(merged[i])) => TextOnly(merged[j])
            /\ resp.search_type = "hybrid" =>
                   LET semantic == RespSemantic
                   IN  merged = semantic \o
                           SelectSeq(RespText, LAMBDA t : Pos(semantic, t.id) = 0)

\* a truncated hybrid result in which a scored match and a text-only match
\* have the same sort key
C8_Witness ==
    /\ IsHybrid
    /\ Len(RespMerged) > resp.limit
    /\ \E i, j \in 1..Len(resp.results) :
           /\ i < j
           /\ ~TextOnly(resp.results[i])
           /\ TextOnly(resp.results[j])
           /\ SortKey(resp.results[i]) = SortKey(resp.results[j])

\* C9: find_similar(id) returns an empty list, and no error, whenever the
\* conversation collection holds no entry for id and answers.
C9_NoEmbeddingGivesEmptyList ==
    (resp.op = "find_similar" /\ convIndex[resp.id] = NoVec
        /\ resp.status # "index_unavailable")
        => (resp.status = "ok" /\ resp.results = <<>>)

\* find_similar answered for an imported conversation without an entry
\* while the collection held other entries
C9_Witness ==
    /\ resp.op = "find_similar"
    /\ resp.status = "ok"
    /\ resp.results = <<>>
    /\ resp.id \in conversations
    /\ convIndex[resp.id] = NoVec
    /\ \E k \in ConvIds : convIndex[k] # NoVec

\* the entries other than id, at or above the threshold, among the
\* limit + 1 nearest neighbours of id's vector
QualifiedNeighbours(id, limit, threshold) ==
    LET near == IndexQuery(convIndex, convIndex[id], limit + 1)
    IN  {i \in 1..Len(near) :
            near[i].id # id /\ Unit - near[i].distance >= threshold}

\* C10: find_similar(id, limit, threshold) returns at most `limit` entries,
\* in non-increasing order of similarity, and exactly `limit` when that
\* many other entries at or above the threshold are among the limit + 1
\* nearest neighbours.
C10_FindSimilarLimitAndOrder ==
    (resp.op = "find_similar" /\ resp.status = "ok") =>
        /\ Len(resp.results) <= resp.limit
        /\ \A i, j \in 1..Len(resp.results) :
               i < j => resp.results[i].similarity[1] >= resp.results[j].similarity[1]
        /\ (convIndex[resp.id] # NoVec
              /\ Cardinality(QualifiedNeighbours(resp.id, resp.limit, resp.threshold))
                     >= resp.limit)
               => Len(resp.results) = resp.limit

\* find_similar returned `limit` > 1 entries of different similarity
C10_Witness ==
    /\ resp.op = "find_similar" /\ resp.status = "ok"
    /\ resp.limit > 1
    /\ Len(resp.results) = resp.limit
    /\ resp.results[1].similarity # resp.results[2].similarity

\* C11: storing an embedding again for an id overwrites: after a store that
\* succeeded, the conversation index holds for the id the entry of that
\* call (the vector of its text), whatever the index held before.
C11_RestoreOverwrites ==
    (resp.op = "store_embedding" /\ resp.status = "ok") =>
        convIndex[resp.id] = generate_embedding(resp.query)

\* the message an entry of the message index was made for, and the
\* conversation the metadata of the entry names
KeyMessage(k) == IF k > MaxMsg THEN k - MaxMsg ELSE k

EntryOwner(k) == MsgOwner(KeyMessage(k))

\* C14: once delete_conversation(id) has succeeded and its background task
\* has run without error, the conversation index holds no entry for id and
\* the message index holds no entry of a message of that conversation.
C14_DeleteRemovesIndexEntries ==
    (resp.op = "delete_conversation" /\ resp.status = "ok" /\ resp.data.task = "done") =>
        /\ convIndex[resp.id] = NoVec
        /\ \A k \in MsgKeys : msgIndex[k] # NoVec => EntryOwner(k) # resp.id

\* C15: after an import, every entry of the message index that belongs to
\* a message of the imported conversation is keyed by the id of that
\* message's row.
C15_MessageEntriesKeyedByRowId ==
    (resp.op = "import" /\ resp.status = "imported") =>
        \A k \in MsgKeys :
            (msgIndex[k] # NoVec /\ KeyMessage(k) \in FileMessages(resp.id)) =>
                k \in messages

\* C16: a call of embed, embed_batch or store_embedding in which the
\* embedding backend fails ends with the error, returns no vector, and
\* leaves both collections as they were.
C16_EmbeddingFailureRaisesAndStoresNothing ==
    [][(/\ resp' # resp
        /\ resp'.op \in {"embed", "store_embedding", "store_message_embeddings"}
        /\ resp'.data.outcome = "embed_failed") =>
            /\ resp'.status = "error"
            /\ resp'.results = <<>>
            /\ convIndex' = convIndex
            /\ msgIndex' = msgIndex]_vars

\* store_embedding failed in the embedding backend for an id without an
\* entry, and the id still has none
C16_Witness ==
    /\ resp.op = "store_embedding"
    /\ resp.data.outcome = "embed_failed"
    /\ resp.status = "error"
    /\ convIndex[resp.id] = NoVec
    /\ \E c \in ConvIds : convIndex[c] # NoVec

\* C17: a failure of the embedding or of the index write never fails or
\* undoes the entity write: an import answers 'imported' (or
\* 'already_exists') with the conversation and its messages in the store,
\* and an update that answered has its title in the store, whatever became
\* of the background task.
C17_EmbeddingFailureKeepsEntityWrite ==
    /\ resp.op = "import" =>
          /\ resp.status \in {"imported", "already_exists"}
          /\ resp.id \in conversations
          /\ FileMessages(resp.id) \subseteq messages
    /\ (resp.op = "update_conversation" /\ resp.status = "ok") =>
          /\ resp.id \in conversations
          /\ titles[resp.id] = resp.query

\* an import answered 'imported' and its conversation has no index entry
C17_Witness ==
    /\ resp.op = "import" /\ resp.status = "imported"
    /\ resp.id \in conversations
    /\ FileMessages(resp.id) # {}
    /\ convIndex[resp.id] = NoVec

\* C12: delete_cluster(c) removes the cluster and every membership of c and
\* nothing else: the conversations, the other clusters and the memberships
\* of other clusters stay as they were; and at no time does a membership
\* name a cluster that has no row.
C12_DeleteClusterCascadeAndFrame ==
    /\ [](\A a \in members : \E c \in clusters : c.id = a.cluster_id)
    /\ [][(resp = NoResp /\ resp'.op = "delete_cluster" /\ resp'.status = "ok") =>
            /\ clusters' = {c \in clusters : c.id # resp'.id}
            /\ resp'.id \notin {c.id : c \in clusters'}
            /\ members' = {a \in members : a.cluster_id # resp'.id}
            /\ conversations' = conversations
            /\ messages' = messages]_vars

\* a cluster with a membership was deleted; another cluster and its
\* membership of the same conversation are still there
C12_Witness ==
    /\ resp.op = "delete_cluster" /\ resp.status = "ok"
    /\ resp.data.cascaded >= 1
    /\ \E a \in members : a.cluster_id # resp.id /\ a.conversation_id \in conversations
    /\ \A a \in members : a.cluster_id # resp.id

\* C13: no two clusters made by hand (auto_generated = false) have the
\* same name, after any sequence of create, update and delete requests.
C13_ManualClusterNamesUnique ==
    \A c1, c2 \in clusters :
        (c1.id # c2.id /\ ~c1.auto_generated /\ ~c2.auto_generated) =>
            c1.name # c2.name

\* the row of search_queries a search of the query that found n results
\* writes
AuditRow(query, search_type, n) ==
    [query_text |-> query, query_type |-> search_type, results_count |-> n]

\* C18: a search that answers has written its audit row (query text, mode,
\* result count) unless that write failed, and its results are those of
\* the search whether the write failed or not; hybrid_search writes one
\* row for each of its two searches.
C18_SearchIsLoggedAndLoggingNeverMatters ==
    /\ IsSearch =>
          /\ resp.results =
                IF resp.op = "search_conversations"
                THEN search_conversations(resp.query, resp.search_type, resp.limit)
                ELSE search_messages(resp.query, resp.search_type, resp.limit)
          /\ resp.log \in {None, Some(AuditRow(resp.query, resp.search_type,
                                                Len(resp.results)))}
    /\ (resp.op = "hybrid_search" /\ resp.status = "ok") =>
          /\ resp.results = hybrid_search(resp.query, resp.limit).conversations
          /\ resp.data.messages = hybrid_search(resp.query, resp.limit).messages
          /\ resp.data.logs[1] \in {None, Some(AuditRow(resp.query, "hybrid",
                                                        Len(resp.results)))}
          /\ resp.data.logs[2] \in {None, Some(AuditRow(resp.query, "hybrid",
                                                        Len(resp.data.messages)))}

\* a search answered with results although the write of its audit row
\* failed
C18_Witness ==
    /\ IsSearch
    /\ resp.log = None
    /\ Len(resp.results) >= 2

\* the rows of a label of the run
LabelMembers(label) ==
    {ac.conversations[i] : i \in cluster_conv_indices(ac.labels, label)}

RunClusters == clusters \cup session.clusters

\* C20: the clusters a run creates are numbered 1, 2, ... in the order of
\* their creation, labels that were skipped not counting, and the cluster
\* numbered N + 1 has the color at position N mod 10 of the palette; so the
\* 11th cluster has the color of the 1st.
C20_ColorIsPaletteEntryNMod10 ==
    /\ \A c \in RunClusters :
          /\ c.number \in 1..ac.clusters_created
          /\ c.color = Palette[((c.number - 1) % 10) + 1]
    /\ \A c1, c2 \in RunClusters :
          /\ c1.number = c2.number => c1 = c2
          /\ c2.number = c1.number + 10 => c2.color = c1.color
    /\ ac.pc = "labels" => Cardinality(RunClusters) = ac.clusters_created

\* an 11th cluster was created, after a label that was skipped
C20_Witness ==
    /\ \E c \in RunClusters : c.number = 11 /\ c.color = "#6366f1"
    /\ \E l \in Range(ac.labels) :
           /\ Cardinality(cluster_conv_indices(ac.labels, l)) < ac.min_cluster_size
           /\ \A i \in 1..Len(ac.todo) : ac.todo[i] # l

\* the memberships of the run, committed or not
RunMembers == members \cup session.members

\* C21: the confidence score of every membership a run creates is the
\* membership probability of the row of that membership's own conversation.
C21_ConfidenceIsOwnProbability ==
    \A a \in RunMembers :
        \A i \in 1..Len(ac.labels) :
            ac.conversations[i] = a.conversation_id =>
                a.confidence_score = Probabilities(ac.labels)[i]

\* C27: row i of the matrix is made from the vector of the conversation at
\* position i of the candidate list, so every conversation that gets a
\* membership gets it for the row of its own vector.
C27_RowsAlignedWithCandidates ==
    ac.pc \in {"labels", "done"} /\ ac.index_queried =>
        /\ ac.nrows <= Len(ac.conversations)
        /\ \A i \in 1..ac.nrows :
               (\E a \in RunMembers : a.conversation_id = ac.conversations[i]) =>
                   MatrixRowIds(ac.conversations)[i] = ac.conversations[i]

\* C25: a conversation whose row the clusterer labels as noise gets no
\* membership from the run, and no cluster is made for the noise label.
C25_NoiseIsNotAssigned ==
    ac.pc \in {"labels", "done"} /\ ac.index_queried =>
        /\ \A i \in 1..ac.nrows :
               ac.labels[i] = -1 =>
                   \A a \in RunMembers :
                       a.conversation_id # MatrixRowIds(ac.conversations)[i]
        /\ Cardinality(RunClusters)
              <= Cardinality(Range(ac.labels) \ {-1})

\* C29: no step of an auto_cluster run removes or changes a cluster or a
\* membership that is in the tables, writes to the vector index or changes
\* a conversation; what a run adds are auto_generated clusters and
\* memberships of them, so the clusters of earlier runs stay.
C29_RunOnlyAdds ==
    [][/\ clusters \subseteq clusters'
       /\ members \subseteq members'
       /\ storeVars' = storeVars
       /\ \A c \in (clusters' \ clusters) \cup session'.clusters : c.auto_generated
       /\ \A a \in members' \ members :
              \E c \in clusters' \ clusters : c.id = a.cluster_id]_vars

\* after two runs a conversation is in two auto_generated clusters, and the
\* cluster made by hand still has its member
C29_Witness ==
    /\ ManualCluster \in clusters
    /\ ManualMember \in members
    /\ \E a1, a2 \in members :
          /\ a1.conversation_id = a2.conversation_id
          /\ a1.cluster_id # a2.cluster_id
          /\ \A a \in {a1, a2} :
                \E c \in clusters : c.id = a.cluster_id /\ c.auto_generated

\* C30: the result of a run that ends normally counts what the run put in
\* the tables: clusters_created the cluster rows, conversations_clustered
\* the membership rows; no conversation has two of these memberships, and
\* conversations_clustered is at most the number of candidates.
C30_ResultMatchesRows ==
    [][(ac.pc # "done" /\ ac'.pc = "done") =>
          /\ resp'.status = "ok"
          /\ resp'.data.clusters_created = Cardinality(clusters' \ clusters)
          /\ resp'.data.conversations_clustered = Cardinality(members' \ members)
          /\ \A a1, a2 \in members' \ members :
                 a1.conversation_id = a2.conversation_id => a1 = a2
          /\ resp'.data.conversations_clustered <= Len(ac'.conversations)]_vars

\* a run has ended with a cluster of two or more conversations, in a store
\* that had an auto_generated cluster of an earlier run
C30_Witness ==
    /\ ac.pc = "done" /\ resp.status = "ok"
    /\ resp.data.clusters_created = 1
    /\ resp.data.conversations_clustered >= 2
    /\ Cardinality({c \in clusters : c.auto_generated}) = 2

\* C26: the name of a cluster is always made, by a fixed priority: the
\* first up to 3 keywords found in the members' titles and summaries; with
\* no keyword, the common path-segment suffix of the members' project
\* paths (the longest list of segments that ends every path); and "Mixed
\* Topics" when there is no keyword and no common path.
C26_NamePriority ==
    resp.op = "cluster_info" =>
        LET convs == resp.data.members
            found == found_keywords(convs)
            projects == Truthy(convs, "project_path")
            Ends(n) == \A i \in 1..Len(projects) :
                           /\ n <= Len(Split(projects[i]))
                           /\ LastN(Split(projects[i]), n) = LastN(Split(projects[1]), n)
            common == IF projects = <<>> THEN <<>>
                      ELSE LastN(Split(projects[1]),
                                 CHOOSE k \in 0..Len(Split(projects[1])) :
                                     /\ Ends(k)
                                     /\ \A l \in 0..Len(Split(projects[1])) :
                                            Ends(l) => l <= k)
            Named(segment) == segment # <<>>
            Segments(path) == SelectSeq(Split(path), Named)
        IN  /\ resp.status = "ok"
            /\ found # <<>> =>
                  resp.data.name = TitleStr(Join(Take(found, 3), <<",", " ">>))
            /\ (found = <<>> /\ common # <<>>) =>
                  \E n \in 0..Len(common) :
                      Segments(resp.data.name) = Segments(Join(LastN(common, n), <<"/">>))
            /\ (found = <<>> /\ common = <<>>) => resp.data.name = MixedTopics

\* C22: a run with min_cluster_size = 3 over three or more conversations
\* whose stored vectors are all the same (every pairwise similarity is 1.0)
\* ends with exactly one cluster, every one of the conversations a member
\* of it with a confidence score in [0, 1].
C22_IdenticalVectorsGiveOneCluster ==
    (/\ ac.pc = "done"
     /\ ac.min_cluster_size = 3
     /\ Len(ac.conversations) >= 3
     /\ Len(MatrixRowIds(ac.conversations)) = Len(ac.conversations)
     /\ LET similarity_matrix == calculate_similarity_matrix(ac.conversations)
        IN  \A i, j \in DOMAIN similarity_matrix : similarity_matrix[i][j] = Unit)
    => /\ Cardinality(clusters) = 1
       /\ \A c \in conversations :
              \E a \in members :
                  /\ a.conversation_id = c
                  /\ a.cluster_id \in {k.id : k \in clusters}
                  /\ a.confidence_score \in 0..Unit

\* C23: every similarity score a semantic search or find_similar returns
\* is in [0, 1].
C23_SimilarityInUnitInterval ==
    resp.op \in {"search_conversations", "search_messages", "find_similar"} =>
        \A i \in 1..Len(resp.results) :
            resp.results[i].similarity # None =>
                resp.results[i].similarity[1] \in 0..Unit

\* C24: a hybrid search with limit L returns conversations and messages
\* that together number at most L.
C24_HybridReturnsAtMostLimit ==
    (resp.op = "hybrid_search" /\ resp.status = "ok") =>
        Len(resp.results) + Len(resp.data.messages) <= resp.limit

\* the ids of a list of results
ResultIds(results) == {results[i].id : i \in 1..Len(results)}

\* C28: at every moment, also between the delete of a conversation's row
\* and the background task that deletes its index entry, a semantic or
\* hybrid search and find-similar answer without an error and return only
\* conversations and messages that have a row; and the task deletes the
\* index entry only after the row is gone.
C28_SearchOmitsDeletedRows ==
    /\ [](/\ \A q \in Queries, l \in Limits :
                LET hybrid == hybrid_search(q, l)
                IN  /\ ResultIds(search_conversations(q, "semantic", l)) \subseteq conversations
                    /\ ResultIds(search_conversations(q, "hybrid", l)) \subseteq conversations
                    /\ ResultIds(search_messages(q, "semantic", l)) \subseteq messages
                    /\ ResultIds(hybrid.conversations) \subseteq conversations
                    /\ ResultIds(hybrid.messages) \subseteq messages
          /\ \A c \in EntityIds, l \in Limits, th \in Thresholds :
                LET r == api_find_similar_conversations(c, l, th)
                IN  /\ r.status = IF c \in conversations THEN "ok" ELSE "not_found"
                    /\ ResultIds(r.results) \subseteq conversations \ {c})
    /\ [][(TaskPending /\ resp.op = "delete_conversation" /\ convIndex' # convIndex) =>
             /\ resp.id \notin conversations
             /\ convIndex' = IndexDelete(convIndex, {resp.id})]_vars

\* the row of a conversation is deleted, the task has not run, the index
\* still answers a query with its entry, and the search leaves it out
C28_Witness ==
    /\ TaskPending /\ resp.op = "delete_conversation"
    /\ resp.id \notin conversations
    /\ convIndex[resp.id] # NoVec
    /\ conversations # {}
    /\ \E q \in Queries, l \in Limits :
          /\ resp.id \in ResultIds(service_search_conversations(q, l))
          /\ resp.id \notin ResultIds(search_conversations(q, "semantic", l))
          /\ search_conversations(q, "semantic", l) # <<>>

====
